---- MODULE Spec2Model ----
(***************************************************************************)
(* A model of caddy-s3fs: an S3 bucket exposed as a read-only filesystem.  *)
(*                                                                         *)
(* The source tree holds two revisions of the package side by side:        *)
(*   revision "A": src/s3fs/file.go lines 1-178, src/s3fs/reader.go,       *)
(*                 src/s3fs/fs.go, src/s3fs/fileinfo.go,                   *)
(*                 src/s3fs/dirinfo.go, src/unnamed/part_000               *)
(*   revision "B": src/s3fs/file.go lines 179-396, src/unnamed/part_001    *)
(* The variable rev fixes the revision a behaviour runs.                   *)
(*                                                                         *)
(* Strings (paths, object keys) are sequences of one-character strings.    *)
(***************************************************************************)
EXTENDS Integers, Sequences, FiniteSets, TLC

VARIABLES rev, bucket, pageCap, f, io, res, obs, ops

vars == <<rev, bucket, pageCap, f, io, res, obs, ops>>

(***************************************************************************)
(* Bounds of the model.                                                    *)
(***************************************************************************)
MaxPathLen == 3
MaxStatKeys == 2
MaxDirKeys == 3
MaxOps == 5

Revisions == {"A", "B"}

Chars == {".", "/", "a", "b"}

\* byte order of the characters, as S3 orders keys (UTF-8 binary order)
Ord(c) == CASE c = "." -> 46 [] c = "/" -> 47 [] c = "a" -> 97 [] c = "b" -> 98

Paths == UNION {[1..n -> Chars] : n \in 0..MaxPathLen}

\* the object keys buckets are built from
KeyUniverse ==
    { <<"a">>, <<"b">>, <<"a", "b">>, <<".", "a">>,
      <<"a", "/">>, <<"a", "/", "a">>, <<"a", "/", "b">>, <<"a", "/", "b", "/">> }

\* the object keys the listed buckets are built from
DirKeyUniverse ==
    { <<"a">>, <<"b">>, <<"a", "b">>, <<"a", "/">>, <<"a", "/", "a">>, <<"a", "/", "b">> }

(***************************************************************************)
(* strings and path                                                        *)
(***************************************************************************)
HasSuffix(s, c) == Len(s) > 0 /\ s[Len(s)] = c

HasPrefix(s, p) == Len(p) <= Len(s) /\ SubSeq(s, 1, Len(p)) = p

TrimPrefix(s, c) == IF Len(s) > 0 /\ s[1] = c THEN Tail(s) ELSE s

\* the elements of s between slashes, left to right (empty elements included)
RECURSIVE SplitSlash(_)
SplitSlash(s) ==
    IF \A i \in 1..Len(s) : s[i] # "/" THEN <<s>>
    ELSE LET i == CHOOSE j \in 1..Len(s) :
                      s[j] = "/" /\ \A k \in 1..(j - 1) : s[k] # "/"
         IN  <<SubSeq(s, 1, i - 1)>> \o SplitSlash(SubSeq(s, i + 1, Len(s)))

RECURSIVE JoinSlash(_)
JoinSlash(elems) ==
    IF elems = <<>> THEN <<>>
    ELSE IF Len(elems) = 1 THEN elems[1]
    ELSE elems[1] \o <<"/">> \o JoinSlash(Tail(elems))

\* path.Clean's element stack: "." and empty elements dropped, ".." pops
RECURSIVE CleanElems(_, _, _)
CleanElems(elems, stack, rooted) ==
    IF elems = <<>> THEN stack
    ELSE LET e == Head(elems)
             rest == Tail(elems)
         IN  IF e = <<>> \/ e = <<".">> THEN CleanElems(rest, stack, rooted)
             ELSE IF e = <<".", ".">>
                  THEN IF stack # <<>> /\ stack[Len(stack)] # <<".", ".">>
                       THEN CleanElems(rest, SubSeq(stack, 1, Len(stack) - 1), rooted)
                       ELSE IF rooted THEN CleanElems(rest, stack, rooted)
                       ELSE CleanElems(rest, Append(stack, e), rooted)
                  ELSE CleanElems(rest, Append(stack, e), rooted)

DotIfEmpty(s) == IF s = <<>> THEN <<".">> ELSE s

\* Go's path.Clean
Clean(s) ==
    IF s = <<>> THEN <<".">>
    ELSE DotIfEmpty((IF s[1] = "/" THEN <<"/">> ELSE <<>>)
                    \o JoinSlash(CleanElems(SplitSlash(s), <<>>, s[1] = "/")))

RECURSIVE TrimTrailingSlashes(_)
TrimTrailingSlashes(s) ==
    IF HasSuffix(s, "/") THEN TrimTrailingSlashes(SubSeq(s, 1, Len(s) - 1)) ELSE s

LastElem(elems) == IF elems[Len(elems)] = <<>> THEN <<"/">> ELSE elems[Len(elems)]

\* Go's path.Base
Base(s) ==
    IF s = <<>> THEN <<".">> ELSE LastElem(SplitSlash(TrimTrailingSlashes(s)))

\* s < t in byte order
LexLess(s, t) ==
    \E i \in 1..(Len(s) + 1) :
        /\ i <= Len(t)
        /\ \A j \in 1..(i - 1) : s[j] = t[j]
        /\ (i = Len(s) + 1 \/ Ord(s[i]) < Ord(t[i]))

RECURSIVE SortLex(_)
SortLex(S) ==
    IF S = {} THEN <<>>
    ELSE LET m == CHOOSE x \in S : \A y \in S \ {x} : LexLess(x, y)
         IN  <<m>> \o SortLex(S \ {m})

Min(a, b) == IF a < b THEN a ELSE b

(***************************************************************************)
(* errors and metadata                                                     *)
(***************************************************************************)
\* an error value: kind "nil" is no error; op/path are set for *fs.PathError
NoErr == [kind |-> "nil", op |-> "", path |-> <<>>]

RawErr(kind) == [kind |-> kind, op |-> "", path |-> <<>>]

PathError(op, path, kind) == [kind |-> kind, op |-> op, path |-> path]

NoInfo == [name |-> <<>>, size |-> 0, modTime |-> "none", isDir |-> FALSE, set |-> FALSE]

\* revision A: s3FileInfo
newFileInfo(name, size, modTime) ==
    [name |-> Base(<<"/">> \o name), size |-> size, modTime |-> modTime,
     isDir |-> FALSE, set |-> TRUE]

\* revision A: s3DirInfo (entries of a listing)
newDirInfo(name) ==
    [name |-> Base(<<"/">> \o name), size |-> 0, modTime |-> "epoch",
     isDir |-> TRUE, set |-> TRUE]

\* revision A: dirEntry (result of Stat on a directory)
newDirEntry(name) ==
    [name |-> name, size |-> 0, modTime |-> "epoch", isDir |-> TRUE, set |-> TRUE]

\* revision B: the FileInfo record; its declaration is not part of the tree
NewFileInfo(name, isDir, size, modTime) ==
    [name |-> name, size |-> size, modTime |-> modTime, isDir |-> isDir, set |-> TRUE]

\* revision B: the literal FileInfo{name: name} returned for a directory marker
FileInfoLit(name) ==
    [name |-> name, size |-> 0, modTime |-> "epoch", isDir |-> TRUE, set |-> TRUE]

(***************************************************************************)
(* the object store                                                        *)
(***************************************************************************)
\* HeadObject: fail is a transport/permission failure of this call
HeadObject(b, key, fail) ==
    IF fail THEN [status |-> "error", size |-> 0]
    ELSE IF key \in DOMAIN b THEN [status |-> "ok", size |-> b[key]]
    ELSE [status |-> "404", size |-> 0]

\* the item a key is listed as below prefix: the key itself, or with a
\* delimiter the common prefix up to the first "/" after the prefix
ListItem(key, prefix, delim) ==
    LET rest == SubSeq(key, Len(prefix) + 1, Len(key))
    IN  IF delim /\ \E i \in 1..Len(rest) : rest[i] = "/"
        THEN prefix \o SubSeq(rest, 1, CHOOSE i \in 1..Len(rest) :
                                   rest[i] = "/" /\ \A k \in 1..(i - 1) : rest[k] # "/")
        ELSE key

IsCommonPrefix(item, prefix, delim) ==
    delim /\ \E i \in (Len(prefix) + 1)..Len(item) : item[i] = "/"

\* one page of the sorted items that follow the token
ListPage(sorted, n, prefix, delim) ==
    [err |-> FALSE,
     commonPrefixes |-> SelectSeq(SubSeq(sorted, 1, n),
                                  LAMBDA i : IsCommonPrefix(i, prefix, delim)),
     contents |-> SelectSeq(SubSeq(sorted, 1, n),
                            LAMBDA i : ~IsCommonPrefix(i, prefix, delim)),
     nextToken |-> IF n < Len(sorted) THEN sorted[n] ELSE <<>>,
     isTruncated |-> n < Len(sorted),
     keyCount |-> n]

ListSorted(sorted, maxKeys, cap, prefix, delim) ==
    ListPage(sorted, Min(Min(maxKeys, cap), Len(sorted)), prefix, delim)

\* the token is the last item of the previous page (<<>> is no token); the
\* store puts at most Min(maxKeys, cap) items on a page
ListObjectsV2(b, prefix, delim, token, maxKeys, cap, fail) ==
    IF fail
    THEN [err |-> TRUE, commonPrefixes |-> <<>>, contents |-> <<>>,
          nextToken |-> <<>>, isTruncated |-> FALSE, keyCount |-> 0]
    ELSE ListSorted(
             SortLex({i \in {ListItem(k, prefix, delim) :
                                k \in {k \in DOMAIN b : HasPrefix(k, prefix)}} :
                         token = <<>> \/ LexLess(token, i)}),
             maxKeys, cap, prefix, delim)

(***************************************************************************)
(* S3FS.Stat                                                               *)
(***************************************************************************)
StatResult(info, err, heads, lists) ==
    [info |-> info, err |-> err, heads |-> heads, lists |-> lists]

\* revision A, fs.go: the result of the probe
statDirectoryAResult(name, resp) ==
    IF resp.err THEN StatResult(NoInfo, PathError("stat", name, "Transport"), 1, 1)
    ELSE IF resp.keyCount = 0 /\ name # <<>>
         THEN StatResult(NoInfo, PathError("stat", name, "NotExist"), 1, 1)
         ELSE StatResult(newDirEntry(Base(name)), NoErr, 1, 1)

\* the probe with the leading "/" left on the listing prefix
statDirectoryAProbeKeepsSlash(b, name, listFail) ==
    statDirectoryAResult(name, ListObjectsV2(b, name, FALSE, <<>>, 1, 1, listFail))

\* revision A, fs.go: the probe for keys below the (cleaned) name
statDirectoryAProbe(b, name, listFail) ==
    statDirectoryAResult(name,
        ListObjectsV2(b, TrimPrefix(name, "/"), FALSE, <<>>, 1, 1, listFail))

\* revision A, fs.go: name is replaced by path.Clean(name)
statDirectoryA(b, name, listFail) == statDirectoryAProbe(b, Clean(name), listFail)

\* StatA without the trailing-"/" test: the head result is returned as a file
StatATrustsHead(b, name, headFail, listFail) ==
    LET resp == HeadObject(b, name, headFail)
    IN  IF resp.status = "404" THEN statDirectoryA(b, name, listFail)
        ELSE IF resp.status = "error"
             THEN StatResult(NoInfo, PathError("stat", name, "Transport"), 1, 0)
             ELSE StatResult(newFileInfo(Base(name), resp.size, "lastModified"), NoErr, 1, 0)

\* revision A, fs.go
StatA(b, name, headFail, listFail) ==
    LET resp == HeadObject(b, name, headFail)
    IN  IF resp.status = "404" THEN statDirectoryA(b, name, listFail)
        ELSE IF resp.status = "error"
             THEN StatResult(NoInfo, PathError("stat", name, "Transport"), 1, 0)
             ELSE IF HasSuffix(name, "/")
                  THEN StatResult(newDirEntry(name), NoErr, 1, 0)
                  ELSE StatResult(newFileInfo(Base(name), resp.size, "lastModified"), NoErr, 1, 0)

\* the result of the probe without the KeyCount test
statDirectoryBResultAlwaysDir(name, out) ==
    IF out.err THEN StatResult(NoInfo, PathError("stat", name, "Transport"), 1, 1)
    ELSE StatResult(NewFileInfo(Base(name), TRUE, 0, "epoch"), NoErr, 1, 1)

\* revision B, part_001: the result of the probe
statDirectoryBResult(name, out) ==
    IF out.err THEN StatResult(NoInfo, PathError("stat", name, "Transport"), 1, 1)
    ELSE IF out.keyCount = 0 /\ name # <<>>
         THEN StatResult(NoInfo, PathError("stat", name, "NotExist"), 1, 1)
         ELSE StatResult(NewFileInfo(Base(name), TRUE, 0, "epoch"), NoErr, 1, 1)

\* revision B, part_001: the probe lists nameClean, the tests keep name
statDirectoryB(b, name, listFail) ==
    statDirectoryBResult(name,
        ListObjectsV2(b, TrimPrefix(Clean(name), "/"), FALSE, <<>>, 1, 1, listFail))

\* revision B, part_001
StatB(b, name, headFail, listFail) ==
    LET out == HeadObject(b, name, headFail)
    IN  IF out.status = "404" THEN statDirectoryB(b, name, listFail)
        ELSE IF out.status = "error"
             THEN StatResult(NoInfo, PathError("stat", name, "Transport"), 1, 0)
             ELSE IF HasSuffix(name, "/")
                  THEN StatResult(FileInfoLit(name), NoErr, 1, 0)
                  ELSE StatResult(NewFileInfo(Base(name), FALSE, out.size, "lastModified"), NoErr, 1, 0)

FsStat(r, b, name, headFail, listFail) ==
    IF r = "A" THEN StatA(b, name, headFail, listFail)
    ELSE StatB(b, name, headFail, listFail)

(***************************************************************************)
(* the file handle (s3File)                                                *)
(***************************************************************************)
READAHEAD == 65536

ReadDirAllPageSize == 1000

NoStream == [live |-> FALSE, pos |-> 0, end |-> 0]

\* newFile; exists is FALSE while the caller holds no handle
NoFile ==
    [exists |-> FALSE, name |-> <<>>, info |-> NoInfo,
     readdirContinuationToken |-> <<>>, readdirNotTruncated |-> FALSE,
     off |-> 0, streamRead |-> NoStream, closed |-> FALSE]

newFile(name) == [NoFile EXCEPT !.exists = TRUE, !.name = name]

\* what the store was asked and what happened to the streams it handed out:
\* live counts the range streams opened and not closed
NoIO == [heads |-> 0, lists |-> 0, gets |-> 0, closes |-> 0, live |-> 0]

StreamClosed(i) == [i EXCEPT !.closes = @ + 1, !.live = @ - 1]

AddStatCalls(i, st) == [i EXCEPT !.heads = @ + st.heads, !.lists = @ + st.lists]

FileStatAResult(h, i, st) ==
    IF st.err # NoErr
    THEN [f |-> h, io |-> AddStatCalls(i, st), info |-> NoInfo, err |-> st.err]
    ELSE [f |-> [h EXCEPT !.info = st.info], io |-> AddStatCalls(i, st),
          info |-> st.info, err |-> NoErr]

\* s3File.Stat, revision A: cached after the first success
FileStatA(h, i, b, headFail, listFail) ==
    IF h.info.set THEN [f |-> h, io |-> i, info |-> h.info, err |-> NoErr]
    ELSE FileStatAResult(h, i, StatA(b, h.name, headFail, listFail))

FileStatBResult(h, i, st) ==
    IF st.err = NoErr
    THEN [f |-> [h EXCEPT !.info = st.info], io |-> AddStatCalls(i, st),
          info |-> st.info, err |-> NoErr]
    ELSE [f |-> h, io |-> AddStatCalls(i, st), info |-> st.info, err |-> st.err]

\* s3File.Stat, revision B: asks the store on every call
FileStatB(h, i, b, headFail, listFail) ==
    FileStatBResult(h, i, StatB(b, h.name, headFail, listFail))

FileStat(r, h, i, b, headFail, listFail) ==
    IF r = "A" THEN FileStatA(h, i, b, headFail, listFail)
    ELSE FileStatB(h, i, b, headFail, listFail)

FsOpenResult(st) ==
    IF st.err # NoErr THEN [f |-> NoFile, io |-> st.io, err |-> st.err]
    ELSE [f |-> st.f, io |-> st.io, err |-> NoErr]

\* S3FS.Open: a failed Stat yields no handle
FsOpen(r, i, b, name, headFail, listFail) ==
    FsOpenResult(FileStat(r, newFile(name), i, b, headFail, listFail))

\* rangeReader with a range that is not cut at the object's last byte
RangeReaderNoClamp(from, amt0, size, i, getFail) ==
    IF from >= size
    THEN [stream |-> NoStream, io |-> i, err |-> RawErr("EOF")]
    ELSE IF getFail
         THEN [stream |-> NoStream, io |-> [i EXCEPT !.gets = @ + 1],
               err |-> RawErr("Transport")]
         ELSE [stream |-> [live |-> TRUE, pos |-> from, end |-> from + amt0 + READAHEAD - 1],
               io |-> [i EXCEPT !.gets = @ + 1, !.live = @ + 1],
               err |-> NoErr]

\* rangeReader: the byte range [from, target] of the object, or EOF without
\* a request when from is at or past the end
RangeReader(from, amt0, size, i, getFail) ==
    LET amt == amt0 + READAHEAD
        target0 == from + amt - 1
        target == IF target0 >= size THEN size - 1 ELSE target0
    IN  IF from >= size
        THEN [stream |-> NoStream, io |-> i, err |-> RawErr("EOF")]
        ELSE IF getFail
             THEN [stream |-> NoStream, io |-> [i EXCEPT !.gets = @ + 1],
                   err |-> RawErr("Transport")]
             ELSE [stream |-> [live |-> TRUE, pos |-> from, end |-> target],
                   io |-> [i EXCEPT !.gets = @ + 1, !.live = @ + 1],
                   err |-> NoErr]

\* one Read of the response body into a buffer of plen bytes: the body
\* delivers up to plen of its remaining bytes (mode picks how many) and
\* reports EOF with the last bytes (eofWithData) or on the call after them
BodyRead(stream, plen, mode, eofWithData) ==
    LET avail == stream.end - stream.pos + 1
        m == Min(plen, avail)
        n == IF m = 0 THEN 0
             ELSE IF mode = "one" THEN 1
             ELSE IF mode = "less" /\ m >= 2 THEN m - 1
             ELSE m
        exhausted == stream.pos + n > stream.end
    IN  [n |-> n, from |-> stream.pos,
         eof |-> exhausted /\ (n = 0 \/ eofWithData),
         stream |-> [stream EXCEPT !.pos = @ + n]]

\* the end of Read when it returns at the stream's EOF before the offset is
\* advanced
ReadResultForgetsLastChunk(h, i, br) ==
    [f |-> [h EXCEPT !.streamRead = IF br.eof THEN NoStream ELSE br.stream,
                     !.off = IF br.eof THEN @ ELSE @ + br.n],
     io |-> IF br.eof THEN StreamClosed(i) ELSE i,
     n |-> br.n, from |-> br.from, eos |-> br.eof,
     err |-> IF h.off + br.n >= h.info.size THEN RawErr("EOF") ELSE NoErr]

\* the end of Read when the stream's EOF is returned as it came
ReadResultKeepsStreamEOF(h, i, br) ==
    [f |-> [h EXCEPT !.streamRead = IF br.eof THEN NoStream ELSE br.stream,
                     !.off = @ + br.n],
     io |-> IF br.eof THEN StreamClosed(i) ELSE i,
     n |-> br.n, from |-> br.from, eos |-> br.eof,
     err |-> IF br.eof \/ h.off + br.n >= h.info.size THEN RawErr("EOF") ELSE NoErr]

\* the end of Read: the stream is closed and dropped at its EOF, the offset
\* advances by n, and EOF is reported once the offset has reached the size
ReadResult(h, i, br) ==
    [f |-> [h EXCEPT !.streamRead = IF br.eof THEN NoStream ELSE br.stream,
                     !.off = @ + br.n],
     io |-> IF br.eof THEN StreamClosed(i) ELSE i,
     n |-> br.n, from |-> br.from, eos |-> br.eof,
     err |-> IF h.off + br.n >= h.info.size THEN RawErr("EOF") ELSE NoErr]

\* Read once the stream rr is at hand (or could not be opened)
ReadFrom(h, plen, mode, eofWithData, rr) ==
    IF rr.err # NoErr
    THEN [f |-> h, io |-> rr.io, n |-> 0, from |-> h.off, eos |-> FALSE, err |-> rr.err]
    ELSE ReadResult(h, rr.io, BodyRead(rr.stream, plen, mode, eofWithData))

\* s3File.Read (the two revisions agree)
Read(h, i, plen, mode, eofWithData, getFail) ==
    ReadFrom(h, plen, mode, eofWithData,
             IF h.streamRead.live
             THEN [stream |-> h.streamRead, io |-> i, err |-> NoErr]
             ELSE RangeReader(h.off, plen, h.info.size, i, getFail))

SeekStart == 0
SeekCurrent == 1
SeekEnd == 2

\* the target Seek computes; any other whence leaves the offset
SeekTarget(h, offset, whence) ==
    CASE whence = SeekStart -> offset
      [] whence = SeekCurrent -> h.off + offset
      [] whence = SeekEnd -> h.info.size - offset
      [] OTHER -> h.off

\* the tail of Seek that drops the stream only where it closes it: a Seek
\* that does not move ahead keeps the stream
SeekMoveKeepsStream(h, i, offset, whence) ==
    LET startByte == SeekTarget(h, offset, whence)
    IN  IF startByte < 0
        THEN [f |-> h, io |-> i, pos |-> startByte, err |-> RawErr("Invalid")]
        ELSE [f |-> [h EXCEPT !.off = startByte,
                              !.streamRead = IF h.off < startByte THEN NoStream ELSE @],
              io |-> IF h.off < startByte /\ h.streamRead.live THEN StreamClosed(i) ELSE i,
              pos |-> startByte, err |-> NoErr]

\* the tail of Seek without the test for a negative target
SeekMoveNoSignTest(h, i, offset, whence) ==
    LET startByte == SeekTarget(h, offset, whence)
    IN  [f |-> [h EXCEPT !.off = startByte, !.streamRead = NoStream],
         io |-> IF h.off < startByte /\ h.streamRead.live THEN StreamClosed(i) ELSE i,
         pos |-> startByte, err |-> NoErr]

\* the tail of Seek shared by the revisions: the stream is closed only when
\* the target lies ahead, and the reference is dropped in every case
SeekMove(h, i, offset, whence) ==
    LET startByte == SeekTarget(h, offset, whence)
    IN  IF startByte < 0
        THEN [f |-> h, io |-> i, pos |-> startByte, err |-> RawErr("Invalid")]
        ELSE [f |-> [h EXCEPT !.off = startByte, !.streamRead = NoStream],
              io |-> IF h.off < startByte /\ h.streamRead.live THEN StreamClosed(i) ELSE i,
              pos |-> startByte, err |-> NoErr]

\* revision A: a handle without an open stream counts as closed
SeekA(h, i, offset, whence) ==
    IF ~h.streamRead.live
    THEN [f |-> h, io |-> i, pos |-> 0, err |-> RawErr("Closed")]
    ELSE SeekMove(h, i, offset, whence)

\* revision B
SeekB(h, i, offset, whence) ==
    IF h.closed
    THEN [f |-> h, io |-> i, pos |-> 0, err |-> RawErr("Closed")]
    ELSE SeekMove(h, i, offset, whence)

Seek(r, h, i, offset, whence) ==
    IF r = "A" THEN SeekA(h, i, offset, whence) ELSE SeekB(h, i, offset, whence)

ReadAtAfterSeek(sk, plen, mode, eofWithData, getFail) ==
    IF sk.err # NoErr
    THEN [f |-> sk.f, io |-> sk.io, n |-> 0, from |-> sk.f.off, eos |-> FALSE,
          err |-> sk.err]
    ELSE Read(sk.f, sk.io, plen, mode, eofWithData, getFail)

\* s3File.ReadAt: Seek(off, SeekStart), then Read
ReadAt(r, h, i, plen, off, mode, eofWithData, getFail) ==
    ReadAtAfterSeek(Seek(r, h, i, off, SeekStart), plen, mode, eofWithData, getFail)

\* s3File.Close, revision A: the stream's own close error is returned
CloseA(h, i, closeFail) ==
    IF ~h.streamRead.live THEN [f |-> h, io |-> i, err |-> NoErr]
    ELSE [f |-> [h EXCEPT !.streamRead = NoStream], io |-> StreamClosed(i),
          err |-> IF closeFail THEN RawErr("Transport") ELSE NoErr]

\* s3File.Close, revision B: always nil
CloseB(h, i, closeFail) ==
    [f |-> [h EXCEPT !.closed = TRUE, !.streamRead = NoStream],
     io |-> IF h.streamRead.live THEN StreamClosed(i) ELSE i,
     err |-> NoErr]

Close(r, h, i, closeFail) ==
    IF r = "A" THEN CloseA(h, i, closeFail) ELSE CloseB(h, i, closeFail)

(***************************************************************************)
(* directory listing                                                       *)
(***************************************************************************)
\* the prefix ReadDir lists: no leading "/", and a trailing "/" unless root
ReadDirPrefix(name0) ==
    LET name == TrimPrefix(name0, "/")
    IN  IF name # <<>> /\ ~HasSuffix(name, "/") THEN name \o <<"/">> ELSE name

\* the entries made of one page: subdirectories first, then the files,
\* keys that end in "/" (directory markers) skipped
PageEntries(r, b, output) ==
    LET dirs == output.commonPrefixes
        files == SelectSeq(output.contents, LAMBDA k : ~HasSuffix(k, "/"))
    IN  IF r = "A"
        THEN [j \in 1..Len(dirs) |-> newDirInfo(dirs[j])]
             \o [j \in 1..Len(files) |-> newFileInfo(files[j], b[files[j]], "lastModified")]
        ELSE [j \in 1..Len(dirs) |-> NewFileInfo(Base(<<"/">> \o dirs[j]), TRUE, 0, "epoch")]
             \o [j \in 1..Len(files) |->
                    NewFileInfo(Base(<<"/">> \o files[j]), FALSE, b[files[j]], "lastModified")]

\* the end of ReadDir: token and end of listing are kept, the page is
\* turned into entries
ReadDirPageResult(r, h, i, b, output) ==
    IF output.err
    THEN [f |-> h, io |-> [i EXCEPT !.lists = @ + 1], entries |-> <<>>,
          err |-> RawErr("Transport")]
    ELSE [f |-> [h EXCEPT !.readdirContinuationToken = output.nextToken,
                          !.readdirNotTruncated = @ \/ ~output.isTruncated],
          io |-> [i EXCEPT !.lists = @ + 1],
          entries |-> PageEntries(r, b, output), err |-> NoErr]

\* ReadDir for n > 0 that asks the store for a full page whatever n is
ReadDirPageIgnoresN(r, h, i, b, n, cap, listFail) ==
    IF h.readdirNotTruncated
    THEN [f |-> h, io |-> i, entries |-> <<>>, err |-> RawErr("EOF")]
    ELSE ReadDirPageResult(r, h, i, b,
             ListObjectsV2(b, ReadDirPrefix(h.name), TRUE,
                           h.readdirContinuationToken, ReadDirAllPageSize, cap, listFail))

\* ReadDir for n > 0: one page of at most n items
ReadDirPage(r, h, i, b, n, cap, listFail) ==
    IF h.readdirNotTruncated
    THEN [f |-> h, io |-> i, entries |-> <<>>, err |-> RawErr("EOF")]
    ELSE ReadDirPageResult(r, h, i, b,
             ListObjectsV2(b, ReadDirPrefix(h.name), TRUE,
                           h.readdirContinuationToken, n, cap, listFail))

RECURSIVE readDirAll(_, _, _, _, _, _, _, _)

\* the body of readDirAll's loop with a page that ends the loop whatever it
\* holds
readDirAllStepOnePage(r, b, cap, failAt, k, fileInfos, pg) ==
    IF pg.err.kind \in {"nil", "EOF"}
    THEN [f |-> pg.f, io |-> pg.io, entries |-> fileInfos \o pg.entries, err |-> NoErr]
    ELSE [f |-> pg.f, io |-> pg.io, entries |-> <<>>, err |-> pg.err]

\* the body of readDirAll's loop, pg being the page ReadDir(1000) returned:
\* on a failure the accumulated entries are dropped (return nil, err)
readDirAllStep(r, b, cap, failAt, k, fileInfos, pg) ==
    IF pg.err = NoErr
    THEN readDirAll(r, pg.f, pg.io, b, cap, failAt, k + 1, fileInfos \o pg.entries)
    ELSE IF pg.err.kind = "EOF"
         THEN [f |-> pg.f, io |-> pg.io, entries |-> fileInfos \o pg.entries, err |-> NoErr]
         ELSE [f |-> pg.f, io |-> pg.io, entries |-> <<>>, err |-> pg.err]

\* readDirAll: pages of 1000 until EOF; the failAt-th listing call fails
readDirAll(r, h, i, b, cap, failAt, k, fileInfos) ==
    readDirAllStep(r, b, cap, failAt, k, fileInfos,
                   ReadDirPage(r, h, i, b, ReadDirAllPageSize, cap, k = failAt))

\* s3File.ReadDir
ReadDir(r, h, i, b, n, cap, failAt) ==
    IF h.readdirNotTruncated
    THEN [f |-> h, io |-> i, entries |-> <<>>, err |-> RawErr("EOF")]
    ELSE IF n <= 0 THEN readDirAll(r, h, i, b, cap, failAt, 1, <<>>)
    ELSE ReadDirPage(r, h, i, b, n, cap, failAt = 1)

(***************************************************************************)
(* the state machine                                                       *)
(*   rev, bucket, pageCap  the revision, the bucket's objects (key -> size)*)
(*                         and the most items the store puts on a page     *)
(*   f, io                 the caller's handle and the store/stream audit  *)
(*   res                   the last call: arguments, handle before, result *)
(*   obs                   what the caller has observed since Open         *)
(*   ops                   number of calls made                            *)
(***************************************************************************)
NoRes ==
    [op |-> "none", rev |-> "", path |-> <<>>, arg |-> 0, whence |-> 0, plen |-> 0,
     n |-> 0, from |-> 0, pos |-> 0, target |-> 0, err |-> NoErr, info |-> NoInfo,
     entries |-> <<>>, pre |-> NoFile, preIO |-> NoIO, preObs |-> 0, storeFailed |-> FALSE,
     eos |-> FALSE]

\* rActive: only Reads since Open, none failed; rTotal bytes were delivered,
\* rOk: each chunk began where the previous one ended; rDone: EOF reported.
\* dActive: only ReadDir(1) calls since Open, none failed; dAcc their entries,
\* dCalls their number, dDone: EOF reported.
\* seekTo: the target of the Seek that was the previous call (-1: none).
\* closeCalled: Close was called on the handle. res.preObs is seekTo as a
\* Read found it, and 1 for a Close that found closeCalled set.
NoObs ==
    [rActive |-> FALSE, rTotal |-> 0, rOk |-> TRUE, rDone |-> FALSE,
     dActive |-> FALSE, dAcc |-> <<>>, dCalls |-> 0, dDone |-> FALSE,
     seekTo |-> -1, closeCalled |-> FALSE]

FreshObs == [NoObs EXCEPT !.rActive = TRUE, !.dActive = TRUE]

ObjSize(k) == Len(k)

StatBuckets ==
    {[k \in S |-> ObjSize(k)] :
        S \in {T \in SUBSET KeyUniverse : Cardinality(T) <= MaxStatKeys}}

DirBuckets ==
    {[k \in S |-> ObjSize(k)] :
        S \in {T \in SUBSET DirKeyUniverse : Cardinality(T) <= MaxDirKeys}}

FileKey == <<"a">>

FileSizes == {0, 2, READAHEAD + 2}

FileBuckets == {[k \in {FileKey} |-> n] : n \in FileSizes}

BufLens == {1, 2, READAHEAD}

SeekOffsets == {-1, 0, 1, READAHEAD + 1}

Whences == {SeekStart, SeekCurrent, SeekEnd}

ReadModes == {"full", "one"}

DirPaths == {<<>>, <<"/">>, <<"a">>, <<"/", "a">>, <<"a", "/">>}

PageSizes == {-1, 1, 2}

PageCaps == {1, ReadDirAllPageSize}

InitWith(buckets, caps) ==
    /\ rev \in Revisions
    /\ bucket \in buckets
    /\ pageCap \in caps
    /\ f = NoFile
    /\ io = NoIO
    /\ res = NoRes
    /\ obs = NoObs
    /\ ops = 0

Frame == UNCHANGED <<rev, bucket, pageCap>>

\* S3FS.Stat(name)
StatCall(name, headFail, listFail) ==
    LET st == FsStat(rev, bucket, name, headFail, listFail)
    IN  /\ res' = [NoRes EXCEPT !.op = "Stat", !.rev = rev, !.path = name, !.err = st.err,
                                !.info = st.info, !.pre = f, !.preIO = io,
                                !.storeFailed = st.err.kind = "Transport"]
        /\ UNCHANGED <<f, io, obs, ops>>
        /\ Frame

\* S3FS.Open(name): the caller holds one handle at a time
OpenCall(name, headFail, listFail) ==
    /\ ~f.exists
    /\ ops < MaxOps
    /\ LET o == FsOpen(rev, NoIO, bucket, name, headFail, listFail)
       IN  /\ f' = o.f
           /\ io' = o.io
           /\ res' = [NoRes EXCEPT !.op = "Open", !.rev = rev, !.path = name, !.err = o.err,
                                   !.info = o.f.info, !.pre = f, !.preIO = NoIO,
                                   !.storeFailed = o.err.kind = "Transport"]
           /\ obs' = IF o.err = NoErr THEN FreshObs ELSE NoObs
    /\ ops' = ops + 1
    /\ Frame

ObsAfterRead(o, r) ==
    LET o1 == [o EXCEPT !.dActive = FALSE, !.seekTo = -1]
    IN  IF ~o.rActive \/ o.rDone THEN o1
        ELSE IF r.err.kind \notin {"nil", "EOF"} THEN [o1 EXCEPT !.rActive = FALSE]
        ELSE [o1 EXCEPT !.rOk = @ /\ (r.n = 0 \/ r.from = o.rTotal),
                        !.rTotal = @ + r.n,
                        !.rDone = r.err.kind = "EOF"]

\* f.Read(p), len(p) = plen
ReadCall(plen, mode, eofWithData, getFail) ==
    /\ f.exists
    /\ ops < MaxOps
    /\ LET r == Read(f, io, plen, mode, eofWithData, getFail)
       IN  /\ f' = r.f
           /\ io' = r.io
           /\ res' = [NoRes EXCEPT !.op = "Read", !.rev = rev, !.path = f.name, !.plen = plen,
                                   !.n = r.n, !.from = r.from, !.err = r.err, !.pre = f,
                                   !.preIO = io, !.preObs = obs.seekTo, !.eos = r.eos,
                                   !.storeFailed = r.err.kind = "Transport"]
           /\ obs' = ObsAfterRead(obs, r)
    /\ ops' = ops + 1
    /\ Frame

\* f.Seek(offset, whence)
SeekCall(offset, whence) ==
    /\ f.exists
    /\ ops < MaxOps
    /\ LET r == Seek(rev, f, io, offset, whence)
       IN  /\ f' = r.f
           /\ io' = r.io
           /\ res' = [NoRes EXCEPT !.op = "Seek", !.rev = rev, !.path = f.name, !.arg = offset,
                                   !.whence = whence, !.pos = r.pos,
                                   !.target = SeekTarget(f, offset, whence),
                                   !.err = r.err, !.pre = f, !.preIO = io]
           /\ obs' = [obs EXCEPT !.rActive = FALSE, !.dActive = FALSE,
                                 !.seekTo = IF r.err = NoErr THEN r.pos ELSE -1]
    /\ ops' = ops + 1
    /\ Frame

\* f.ReadAt(p, off), len(p) = plen
ReadAtCall(plen, off, mode, eofWithData, getFail) ==
    /\ f.exists
    /\ ops < MaxOps
    /\ LET r == ReadAt(rev, f, io, plen, off, mode, eofWithData, getFail)
       IN  /\ f' = r.f
           /\ io' = r.io
           /\ res' = [NoRes EXCEPT !.op = "ReadAt", !.rev = rev, !.path = f.name, !.arg = off,
                                   !.plen = plen, !.n = r.n, !.from = r.from, !.err = r.err,
                                   !.pre = f, !.preIO = io, !.eos = r.eos,
                                   !.storeFailed = r.err.kind = "Transport"]
           /\ obs' = [obs EXCEPT !.rActive = FALSE, !.dActive = FALSE, !.seekTo = -1]
    /\ ops' = ops + 1
    /\ Frame

\* f.Close()
CloseCall(closeFail) ==
    /\ f.exists
    /\ ops < MaxOps
    /\ LET r == Close(rev, f, io, closeFail)
       IN  /\ f' = r.f
           /\ io' = r.io
           /\ res' = [NoRes EXCEPT !.op = "Close", !.rev = rev, !.path = f.name, !.err = r.err,
                                   !.pre = f, !.preIO = io,
                                   !.preObs = IF obs.closeCalled THEN 1 ELSE 0]
           /\ obs' = [obs EXCEPT !.rActive = FALSE, !.dActive = FALSE, !.seekTo = -1,
                                 !.closeCalled = TRUE]
    /\ ops' = ops + 1
    /\ Frame

ObsAfterReadDir(o, n, r) ==
    LET o1 == [o EXCEPT !.rActive = FALSE, !.seekTo = -1]
    IN  IF ~o.dActive \/ o.dDone THEN o1
        ELSE IF n # 1 \/ r.err.kind \notin {"nil", "EOF"} THEN [o1 EXCEPT !.dActive = FALSE]
        ELSE [o1 EXCEPT !.dAcc = @ \o r.entries,
                        !.dCalls = @ + 1,
                        !.dDone = r.err.kind = "EOF"]

\* f.ReadDir(n); the failAt-th listing call it makes fails (0: none)
ReadDirCall(n, failAt) ==
    /\ f.exists
    /\ ops < MaxOps
    /\ LET r == ReadDir(rev, f, io, bucket, n, pageCap, failAt)
       IN  /\ f' = r.f
           /\ io' = r.io
           /\ res' = [NoRes EXCEPT !.op = "ReadDir", !.rev = rev, !.path = f.name, !.arg = n,
                                   !.entries = r.entries, !.err = r.err, !.pre = f,
                                   !.preIO = io,
                                   !.storeFailed = r.err.kind = "Transport"]
           /\ obs' = ObsAfterReadDir(obs, n, r)
    /\ ops' = ops + 1
    /\ Frame

\* f.Stat() on the handle
FileStatCall(headFail, listFail) ==
    /\ f.exists
    /\ ops < MaxOps
    /\ LET r == FileStat(rev, f, io, bucket, headFail, listFail)
       IN  /\ f' = r.f
           /\ io' = r.io
           /\ res' = [NoRes EXCEPT !.op = "FileStat", !.rev = rev, !.path = f.name,
                                   !.err = r.err, !.info = r.info, !.pre = f, !.preIO = io,
                                   !.storeFailed = r.err.kind = "Transport"]
           /\ obs' = [obs EXCEPT !.rActive = FALSE, !.dActive = FALSE, !.seekTo = -1]
    /\ ops' = ops + 1
    /\ Frame

\* another client of the bucket replaces the object at key by one of size
\* bytes
PutObject(key, size) ==
    /\ key \in DOMAIN bucket
    /\ bucket[key] # size
    /\ bucket' = [bucket EXCEPT ![key] = size]
    /\ UNCHANGED <<rev, pageCap, f, io, res, obs, ops>>

\* f.rangeReader(from, amt) on a handle of the object at FileKey; the range
\* of the stream it returns is kept in res.from and res.target
RangeReaderCall(from, amt, getFail) ==
    /\ LET rr == RangeReader(from, amt, bucket[FileKey], NoIO, getFail)
       IN  /\ io' = rr.io
           /\ res' = [NoRes EXCEPT !.op = "RangeReader", !.rev = rev, !.path = FileKey,
                                   !.arg = from, !.plen = amt, !.from = rr.stream.pos,
                                   !.target = rr.stream.end, !.err = rr.err,
                                   !.storeFailed = rr.err.kind = "Transport"]
    /\ UNCHANGED <<f, obs, ops>>
    /\ Frame

(***************************************************************************)
(* specifications                                                          *)
(***************************************************************************)
\* metadata resolution over every path and small buckets
InitStat == InitWith(StatBuckets, {ReadDirAllPageSize})

\* Stat keeps no state: a behaviour examines one call
NextStat ==
    /\ res.op = "none"
    /\ \E name \in Paths, headFail \in BOOLEAN, listFail \in BOOLEAN :
           StatCall(name, headFail, listFail)

SpecStat == InitStat /\ [][NextStat]_vars

\* one file handle: Read, Seek, ReadAt, Close
InitFile == InitWith(FileBuckets, {ReadDirAllPageSize})

NextFile ==
    \/ \E headFail \in BOOLEAN : OpenCall(FileKey, headFail, FALSE)
    \/ \E plen \in BufLens, mode \in ReadModes, eofWithData \in BOOLEAN, getFail \in BOOLEAN :
           ReadCall(plen, mode, eofWithData, getFail)
    \/ \E offset \in SeekOffsets, whence \in Whences : SeekCall(offset, whence)
    \/ \E plen \in BufLens, off \in SeekOffsets :
           ReadAtCall(plen, off, "full", TRUE, FALSE)
    \/ \E closeFail \in BOOLEAN : CloseCall(closeFail)

SpecFile == InitFile /\ [][NextFile]_vars

\* one directory handle: ReadDir
MaxFailAt == 2

InitDir == InitWith(DirBuckets, PageCaps)

NextDir ==
    \/ \E name \in DirPaths : OpenCall(name, FALSE, FALSE)
    \/ \E n \in PageSizes, failAt \in 0..MaxFailAt : ReadDirCall(n, failAt)

SpecDir == InitDir /\ [][NextDir]_vars

\* one file handle whose object is replaced while the handle is in use
InitMeta == InitWith(FileBuckets, {ReadDirAllPageSize})

NextMeta ==
    \/ OpenCall(FileKey, FALSE, FALSE)
    \/ \E headFail \in BOOLEAN : FileStatCall(headFail, FALSE)
    \/ \E plen \in BufLens : ReadCall(plen, "full", TRUE, FALSE)
    \/ \E offset \in SeekOffsets : SeekCall(offset, SeekStart)
    \/ CloseCall(FALSE)
    \/ \E size \in FileSizes : PutObject(FileKey, size)

SpecMeta == InitMeta /\ [][NextMeta]_vars

\* rangeReader as a function of from, amt and the size of the object
RangeSizes == {0, 1, 2, READAHEAD, READAHEAD + 1, READAHEAD + 2, 2 * READAHEAD + 3}

RangeFroms == {0, 1, 2, READAHEAD, READAHEAD + 1, READAHEAD + 2}

RangeAmts == {0, 1, 2, READAHEAD}

InitRange == InitWith({[k \in {FileKey} |-> n] : n \in RangeSizes}, {ReadDirAllPageSize})

\* rangeReader keeps no state: a behaviour examines one call
NextRange ==
    /\ res.op = "none"
    /\ \E from \in RangeFroms, amt \in RangeAmts, getFail \in BOOLEAN :
           RangeReaderCall(from, amt, getFail)

SpecRange == InitRange /\ [][NextRange]_vars

Init == InitWith(FileBuckets \cup DirBuckets, PageCaps)

Next == NextStat \/ NextFile \/ NextDir \/ NextMeta \/ NextRange

Spec == Init /\ [][Next]_vars

(***************************************************************************)
(* properties                                                              *)
(***************************************************************************)
EntryKey(e) == <<e.name, e.isDir>>

EntryKeys(seq) == {EntryKey(seq[j]) : j \in 1..Len(seq)}

NoDupEntries(seq) ==
    \A j, k \in 1..Len(seq) : EntryKey(seq[j]) = EntryKey(seq[k]) => j = k

\* C1: a caller that opens a file and only calls Read, with no call failing,
\* has received, by the call that reports EOF, exactly the object's bytes:
\* every chunk began where the previous one ended, starting at 0, and their
\* lengths add up to the object's size.
C1_RoundTrip ==
    (obs.rActive /\ obs.rDone) => (obs.rOk /\ obs.rTotal = bucket[f.name])

\* a round trip over a file longer than one range: a stream was exhausted
\* and closed and a second range was requested
C1_Witness ==
    /\ obs.rActive /\ obs.rDone
    /\ obs.rTotal = READAHEAD + 2
    /\ io.gets >= 2 /\ io.closes >= 1

\* C2: on a handle Close was not called on, a Seek whose computed target is
\* not negative succeeds, returns the target and leaves the offset there, and
\* the Read that follows a successful Seek delivers bytes from that target
\* (requesting a range that starts there when it needs a new stream).
C2_SeekInvariant ==
    /\ (res.op = "Seek" /\ ~obs.closeCalled /\ res.target >= 0)
          => (res.err = NoErr /\ res.pos = res.target /\ f.off = res.target)
    /\ (res.op = "Read" /\ res.preObs >= 0)
          => /\ res.n > 0 => res.from = res.preObs
             /\ io.gets > res.preIO.gets => res.from = res.preObs
             /\ res.pre.off = res.preObs

\* C3: the entries of ReadDir(1) repeated until EOF are, by name and kind,
\* those of one ReadDir(n <= 0) on a fresh handle of the same path, each once.
C3_PagedEqualsListAll ==
    (obs.dActive /\ obs.dDone) =>
        \A n \in {0, -1} :
            LET fresh == [newFile(f.name) EXCEPT !.info = f.info]
                all == ReadDir(rev, fresh, NoIO, bucket, n, pageCap, 0)
            IN  /\ all.err = NoErr
                /\ EntryKeys(all.entries) = EntryKeys(obs.dAcc)
                /\ NoDupEntries(all.entries)
                /\ NoDupEntries(obs.dAcc)

\* a finished enumeration of a directory that holds a marker key, a file
\* and a subdirectory
C3_Witness ==
    /\ obs.dActive /\ obs.dDone
    /\ <<"a", "/">> \in DOMAIN bucket
    /\ \E j, k \in 1..Len(obs.dAcc) : obs.dAcc[j].isDir /\ ~obs.dAcc[k].isDir

\* C4: a ReadDir(n <= 0) whose listing fails after a page was accumulated
\* returns the accumulated entries with the error; it returns no error when
\* no listing call fails.
C4_ListAllPartial ==
    (res.op = "ReadDir" /\ res.arg <= 0 /\ ~res.pre.readdirNotTruncated) =>
        LET first == ReadDirPage(rev, res.pre, NoIO, bucket, ReadDirAllPageSize, pageCap, FALSE)
        IN  /\ (res.err.kind = "Transport" /\ io.lists >= res.preIO.lists + 2)
                  => /\ Len(res.entries) >= Len(first.entries)
                     /\ SubSeq(res.entries, 1, Len(first.entries)) = first.entries
            /\ ~res.storeFailed => res.err = NoErr

\* C5: ReadDir(n), n > 0, returns at most n entries; on a handle whose
\* listing is exhausted it returns EOF and no entries without a store call,
\* and the listing stays exhausted; ReadDir(1) over a root of three files
\* returns one file entry on each of three calls and EOF on the fourth.
C5_PagedListing ==
    /\ (res.op = "ReadDir" /\ res.arg > 0) => Len(res.entries) <= res.arg
    /\ (res.op = "ReadDir" /\ res.arg > 0 /\ res.pre.readdirNotTruncated)
          => /\ res.err = RawErr("EOF") /\ res.entries = <<>>
             /\ io.lists = res.preIO.lists
             /\ f.readdirNotTruncated
    /\ (/\ res.op = "ReadDir" /\ obs.dActive /\ f.name \in {<<>>, <<"/">>}
        /\ Cardinality(DOMAIN bucket) = 3
        /\ \A k \in DOMAIN bucket : \A j \in 1..Len(k) : k[j] # "/")
          => /\ obs.dCalls \in 1..3
                  => /\ res.err = NoErr /\ Len(res.entries) = 1
                     /\ ~res.entries[1].isDir
                     /\ Len(obs.dAcc) = obs.dCalls /\ NoDupEntries(obs.dAcc)
             /\ obs.dCalls = 4 => (res.err = RawErr("EOF") /\ res.entries = <<>>)
             /\ obs.dCalls <= 4

\* the fourth ReadDir(1) over a root of three files: EOF after three
\* one-file pages, without a listing call
C5_Witness ==
    /\ res.op = "ReadDir" /\ obs.dActive /\ obs.dCalls = 4 /\ obs.dDone
    /\ f.name \in {<<>>, <<"/">>}
    /\ DOMAIN bucket = {<<"a">>, <<"a", "b">>, <<"b">>}
    /\ Len(obs.dAcc) = 3 /\ res.err = RawErr("EOF")
    /\ io.lists = res.preIO.lists

\* C6: a ReadDir(n), n > 0, on a directory's handle that returns no entries
\* returns an error.
C6_EmptyPageHasError ==
    (res.op = "ReadDir" /\ res.arg > 0 /\ res.pre.info.isDir /\ res.entries = <<>>)
        => res.err # NoErr

StatOf(p) == res.op = "Stat" /\ res.path = p

\* C7, as stated: Stat of a path ending in "/" returns a directory of size 0
\* (unless a store call fails).
C7_TrailingSlashAlwaysDir ==
    (res.op = "Stat" /\ HasSuffix(res.path, "/") /\ ~res.storeFailed)
        => (res.err = NoErr /\ res.info.isDir /\ res.info.size = 0)

\* C7, amended: Stat of a path ending in "/" never returns a file: with an
\* object at the path (whatever its length) or a key under the cleaned path
\* it returns a directory of size 0, and otherwise it fails with NotExist.
C7_TrailingSlashNeverFile ==
    (res.op = "Stat" /\ HasSuffix(res.path, "/") /\ ~res.storeFailed) =>
        LET probe == TrimPrefix(Clean(res.path), "/")
            found == \/ res.path \in DOMAIN bucket
                     \/ \E k \in DOMAIN bucket : HasPrefix(k, probe)
        IN  /\ found => (res.err = NoErr /\ res.info.isDir /\ res.info.size = 0)
            /\ ~found => (res.err.kind = "NotExist" /\ res.err.op = "stat")

\* Stat of a marker object of non-zero length
C7_Witness ==
    /\ StatOf(<<"a", "/">>)
    /\ <<"a", "/">> \in DOMAIN bucket /\ bucket[<<"a", "/">>] > 0
    /\ res.err = NoErr /\ res.info.isDir /\ res.info.size = 0

\* C8: Stat("") returns a directory whatever the bucket holds, unless a
\* store call fails.
C8_RootAlwaysDir ==
    (StatOf(<<>>) /\ ~res.storeFailed) => (res.err = NoErr /\ res.info.isDir)

\* C9, as stated: Stat of a non-empty path that is no object's key and no
\* key's prefix fails with NotExist, unless a store call fails.
C9_NotExist ==
    (/\ res.op = "Stat" /\ res.path # <<>> /\ ~res.storeFailed
     /\ res.path \notin DOMAIN bucket
     /\ \A k \in DOMAIN bucket : ~HasPrefix(k, res.path))
        => res.err.kind = "NotExist"

\* C9, amended: Stat of a non-empty path that is no object's key, when no key
\* begins with the cleaned path (path.Clean, leading "/" removed), fails with
\* NotExist tagged "stat", unless a store call fails.
C9_NotExistCleaned ==
    (/\ res.op = "Stat" /\ res.path # <<>> /\ ~res.storeFailed
     /\ res.path \notin DOMAIN bucket
     /\ \A k \in DOMAIN bucket : ~HasPrefix(k, TrimPrefix(Clean(res.path), "/")))
        => (res.err.kind = "NotExist" /\ res.err.op = "stat" /\ ~res.info.set)

\* Stat("b") in a bucket that holds other keys
C9_Witness ==
    /\ StatOf(<<"b">>) /\ DOMAIN bucket = {<<"a">>, <<"a", "/", "b">>}
    /\ res.err.kind = "NotExist"

\* C10: Stat of a path without a trailing "/" (a leading "/" aside) that is
\* no object's key while some key begins with the path and "/" returns a
\* directory of size 0 with the epoch as modification time, unless a store
\* call fails.
C10_ImplicitDirectory ==
    (/\ res.op = "Stat" /\ ~HasSuffix(res.path, "/") /\ ~res.storeFailed
     /\ res.path \notin DOMAIN bucket
     /\ \E k \in DOMAIN bucket : HasPrefix(k, TrimPrefix(res.path, "/") \o <<"/">>))
        => /\ res.err = NoErr
           /\ res.info.isDir /\ res.info.size = 0 /\ res.info.modTime = "epoch"

\* Stat("/a") and Stat("a") with only a/b below a
C10_Witness ==
    /\ res.op = "Stat" /\ res.path \in {<<"/", "a">>, <<"a">>}
    /\ DOMAIN bucket = {<<"a", "/", "b">>}
    /\ res.err = NoErr /\ res.info.isDir

\* C11: on a handle Close was not called on, a Seek whose computed target is
\* negative fails with Invalid and changes nothing: the offset, the stream
\* the handle holds and the store's audit are as before the call, so that the
\* next Read continues from the prior offset.
C11_NegativeSeekRejected ==
    (res.op = "Seek" /\ ~obs.closeCalled /\ res.target < 0)
        => (res.err = RawErr("Invalid") /\ f = res.pre /\ io = res.preIO)

\* C12: Close returns no error, also when the stream's own close fails, and
\* a Close on a handle Close was already called on changes nothing: offset,
\* stream, listing state, closed flag and the store's audit are as before.
C12_CloseIdempotent ==
    res.op = "Close" =>
        /\ res.err = NoErr
        /\ res.preObs = 1 => (f = res.pre /\ io = res.preIO)



\* C13: once Close was called on a handle it holds no stream, no Read or
\* ReadAt asks the store for a range, and a Seek fails with Closed and leaves
\* the offset where it was.
C13_ClosedIsTerminal ==
    obs.closeCalled =>
        /\ ~f.streamRead.live
        /\ res.op \in {"Read", "ReadAt"} => io.gets = res.preIO.gets
        /\ res.op = "Seek" => (res.err = RawErr("Closed") /\ f.off = res.pre.off)

\* C14: while a file handle is in use the store is asked for the metadata of
\* its path at most once (by Open), and no call on the handle changes the
\* metadata it holds, whatever happens to the object.
C14_MetadataFetchedOnce ==
    [][(f.exists /\ f'.exists) => (io'.heads <= 1 /\ f'.info = f.info)]_vars

\* C15: a call that fails because a store call failed returns an error
\* tagged with the operation and the path: "readdir" and the handle's path
\* for ReadDir, "stat" and the caller's path for Stat.
C15_StoreFailuresTagged ==
    /\ (res.op = "ReadDir" /\ res.storeFailed)
          => res.err = PathError("readdir", f.name, "Transport")
    /\ (res.op = "Stat" /\ res.storeFailed)
          => res.err = PathError("stat", res.path, "Transport")

\* C16: the range streams that were opened and not closed are exactly the
\* one the handle holds, if it holds one: no stream is dropped unclosed by
\* Read at its end, by Seek or by Close, and none is closed twice.
C16_StreamOwnership ==
    io.live = IF f.streamRead.live THEN 1 ELSE 0

\* C17, as stated: the offset of a handle is never negative and never above
\* the size in its metadata.
C17_OffsetWithinSize ==
    0 <= f.off /\ f.off <= f.info.size

\* C17, amended: the offset is never negative; a successful Seek leaves it at
\* the computed target, which may lie above the size; a Read never moves it
\* above the size (it ends at most at the larger of the size and where it
\* was), and a Read that finds it at or above the size delivers nothing,
\* reports EOF without a store request and leaves it.
C17_OffsetBound ==
    /\ 0 <= f.off
    /\ (res.op = "Seek" /\ res.err = NoErr) => f.off = res.target
    /\ res.op = "Read" => (f.off <= f.info.size \/ f.off = res.pre.off)
    /\ res.op = "ReadAt" => (f.off <= f.info.size \/ f.off \in {res.arg, res.pre.off})
    /\ (res.op = "Read" /\ res.pre.off >= f.info.size /\ ~res.pre.streamRead.live)
          => /\ res.n = 0 /\ res.err = RawErr("EOF")
             /\ f.off = res.pre.off /\ io.gets = res.preIO.gets

\* a Read after a Seek that left the offset above the size
C17_Witness ==
    /\ res.op = "Read" /\ res.pre.off > f.info.size /\ f.info.size > 0
    /\ res.n = 0 /\ res.err = RawErr("EOF") /\ f.off = res.pre.off

NoSeparator(name) == \A j \in 1..Len(name) : name[j] # "/"

\* C20: the name of the metadata Stat or Open returns, and of every entry
\* ReadDir returns, holds no "/".
C20_BaseNameOnly ==
    /\ (res.op \in {"Stat", "Open"} /\ res.err = NoErr) => NoSeparator(res.info.name)
    /\ res.op = "ReadDir" =>
          \A j \in 1..Len(res.entries) : NoSeparator(res.entries[j].name)

\* C21: whenever the handle holds an open range stream, the next byte the
\* stream delivers is the one at the handle's offset; the bytes a Read
\* returns begin at the offset the handle had before that Read, and those a
\* ReadAt returns begin at the offset it was given.
C21_StreamAtOffset ==
    /\ f.streamRead.live => f.streamRead.pos = f.off
    /\ (res.op = "Read" /\ res.n > 0) => res.from = res.pre.off
    /\ (res.op = "ReadAt" /\ res.n > 0) => res.from = res.arg

\* a Read that continues, away from the start of the object, on a stream
\* that is not the first the handle opened (a Seek or the end of a range
\* lies before it)
C21_Witness ==
    /\ res.op = "Read" /\ res.n > 0
    /\ res.pre.streamRead.live /\ res.pre.off > 0
    /\ io.gets >= 2
    /\ f.streamRead.live /\ f.streamRead.pos = f.off

====
